---- MODULE Spec2Model ----
(***************************************************************************)
(* Model of the PSX multi-agent stock analysis program:                    *)
(*   - BaseAgent.run, the tool-calling run-loop (psx/agents/base.py)       *)
(*   - SupervisorAgent.analyze, the planning loop, delegation and report   *)
(*     synthesis (psx/agents/supervisor.py)                                *)
(*   - the shaping step _parse_to_output of the specialized agents         *)
(* Texts produced by a model are records [fmt, obj]: fmt says how the text *)
(* carries JSON (bare object, fenced json block, object inside prose, no   *)
(* JSON at all, or a brace-delimited text that is not valid JSON) and obj  *)
(* is the JSON object it carries.  Python dicts are functions whose domain *)
(* is the set of keys present.  Confidences are in percent.                *)
(***************************************************************************)
EXTENDS Integers, Sequences, FiniteSets, TLC

VARIABLES
    pc,             \* position of analyze(): start, loop, delegate, synth, done, raised
    query,          \* the raw query, a sequence of characters
    state,          \* the AnalysisState of the current analyze() call
    max_iterations, \* SupervisorAgent.max_iterations
    next_action,    \* the action planned in the current supervisor iteration
    batch,          \* symbols of the current delegation still to be handled
    report,         \* the AnalysisReport returned by analyze()
    routingCalls,   \* number of routing model calls made by this analyze()
    synthCalls,     \* number of synthesis model calls made by this analyze()
    agentCalls,     \* number of specialized-agent invocations made
    lastCall,       \* the most recent specialized-agent invocation
    synthesis,      \* the action dict handed to _create_report
    json_match,     \* what _plan_next_action found in the last routing reply
    run,            \* the locals of a BaseAgent.run call
    output,         \* what a specialized agent's run() gave its caller
    converted,      \* what _convert_messages_for_anthropic gave its caller
    db              \* the companies table behind a DataStore, and the last call's return

vars == <<pc, query, state, max_iterations, next_action, batch, report,
          routingCalls, synthCalls, agentCalls, lastCall, synthesis, json_match,
          run, output, converted, db>>

supVars == <<pc, query, state, max_iterations, next_action, batch, report,
             routingCalls, synthCalls, agentCalls, lastCall, synthesis, json_match>>

----------------------------------------------------------------------------
(* Bounds of the exploration *)

MaxCeiling == 2      \* largest run-loop ceiling explored
MaxCalls == 2        \* most tool calls in one model reply
MaxSupIter == 2      \* largest supervisor ceiling explored

----------------------------------------------------------------------------
(* Python dict helpers *)

EmptyObj == [k \in {} |-> 0]

Get(d, k, default) == IF k \in DOMAIN d THEN d[k] ELSE default

\* An insertion-ordered dict is a sequence of [k, v] entries with distinct keys.
DictKeys(d) == {d[i].k : i \in 1..Len(d)}

DictGet(d, key) == d[CHOOSE i \in 1..Len(d) : d[i].k = key].v

DictSet(d, key, val) ==
    IF key \in DictKeys(d)
    THEN [i \in 1..Len(d) |-> IF d[i].k = key THEN [k |-> key, v |-> val] ELSE d[i]]
    ELSE Append(d, [k |-> key, v |-> val])

DictValues(d) == [i \in 1..Len(d) |-> d[i].v]

----------------------------------------------------------------------------
(* Model texts and JSON *)

JsonFormats == {"bare", "fenced", "prose"}

PlainText == [fmt |-> "plain", obj |-> EmptyObj]
BadJsonText == [fmt |-> "badjson", obj |-> EmptyObj]

TextsOf(objs) == {[fmt |-> f, obj |-> o] : f \in JsonFormats, o \in objs} \cup {PlainText, BadJsonText}

\* re.search(r'\{[\s\S]*\}', text) followed by json.loads(match.group()):
\* "nomatch" when the text holds no brace pair, "error" when the matched
\* text is not valid JSON, otherwise the parsed object.
SearchJson(text) ==
    IF text.fmt \in JsonFormats THEN [kind |-> "ok", obj |-> text.obj]
    ELSE IF text.fmt = "badjson" THEN [kind |-> "error", obj |-> EmptyObj]
    ELSE [kind |-> "nomatch", obj |-> EmptyObj]

\* Elements of a JSON list: an object (here without fields) or a string.
ItemObject == [json |-> "object", fields |-> EmptyObj]
ItemString == [json |-> "string"]

\* A JSON object holding the list sections of the three agents' outputs.
Sections(items) == [valuations |-> items, news_items |-> items, ratios |-> items]

\* JSON objects a specialized agent's final text may carry.
AgentObjs ==
    { [recommendation |-> "BUY", confidence |-> 80],
      [recommendation |-> "HOLD", confidence |-> 20],
      [recommendation |-> "MAYBE"],
      Sections(<<ItemObject>>),
      Sections(<<ItemObject, ItemString>>),
      [recommendation |-> "HOLD", confidence |-> 20,
       output |-> [fmt |-> "bare", obj |-> [recommendation |-> "BUY", confidence |-> 80]]],
      EmptyObj }

AgentTexts == TextsOf(AgentObjs)

----------------------------------------------------------------------------
(* BaseAgent: tools *)

Providers == {"openai", "anthropic"}

\* Tool registry of the agent: A's handler raises, B's handler returns.
tools == {"A", "B"}
RaisingTools == {"A"}
\* Names a model may request; "U" is not registered.
RequestedNames == {"A", "B", "U"}

NoArgs == EmptyObj

ErrorPayload(message) == [error |-> message]
ToolValue(name) == [value |-> name]

\* the handler's exception leaves _execute_tool
_execute_tool_reraise(tool_call) ==
    IF tool_call.name \notin tools
    THEN [payload |-> ErrorPayload(<<"Unknown tool", tool_call.name>>), invoked |-> FALSE, raised |-> FALSE]
    ELSE IF tool_call.name \in RaisingTools
    THEN [payload |-> ErrorPayload(<<"failed", tool_call.name>>), invoked |-> TRUE, raised |-> TRUE]
    ELSE [payload |-> ToolValue(tool_call.name), invoked |-> TRUE, raised |-> FALSE]

\* the registry is indexed without the membership test
_execute_tool_noLookup(tool_call) ==
    IF tool_call.name \notin tools
    THEN [payload |-> ErrorPayload(<<"KeyError", tool_call.name>>), invoked |-> FALSE, raised |-> TRUE]
    ELSE IF tool_call.name \in RaisingTools
    THEN [payload |-> ErrorPayload(<<"failed", tool_call.name>>), invoked |-> TRUE, raised |-> FALSE]
    ELSE [payload |-> ToolValue(tool_call.name), invoked |-> TRUE, raised |-> FALSE]

\* result string of one tool call, whether its handler was invoked, and
\* whether an exception leaves _execute_tool
_execute_tool(tool_call) ==
    IF tool_call.name \notin tools
    THEN [payload |-> ErrorPayload(<<"Unknown tool", tool_call.name>>), invoked |-> FALSE, raised |-> FALSE]
    ELSE IF tool_call.name \in RaisingTools
    THEN [payload |-> ErrorPayload(<<"failed", tool_call.name>>), invoked |-> TRUE, raised |-> FALSE]
    ELSE [payload |-> ToolValue(tool_call.name), invoked |-> TRUE, raised |-> FALSE]

format_tool_result_message(tool_call_id, result) ==
    [role |-> "tool", tool_call_id |-> tool_call_id, content |-> result]

format_assistant_message_with_tool_calls(provider, content, tool_calls) ==
    IF provider = "openai"
    THEN [role |-> "assistant", content |-> content,
          tool_calls |-> [i \in 1..Len(tool_calls) |->
              [id |-> tool_calls[i].id, type |-> "function",
               function |-> [name |-> tool_calls[i].name,
                             arguments |-> [json |-> tool_calls[i].arguments]]]]]
    ELSE [role |-> "assistant", content |-> content,
          tool_calls |-> [i \in 1..Len(tool_calls) |->
              [id |-> tool_calls[i].id, name |-> tool_calls[i].name,
               arguments |-> tool_calls[i].arguments]]]

----------------------------------------------------------------------------
(* BaseAgent: model replies *)

RECURSIVE SeqsUpTo(_, _)
SeqsUpTo(S, n) ==
    IF n = 0 THEN {<<>>}
    ELSE LET shorter == SeqsUpTo(S, n - 1)
         IN shorter \cup {Append(s, x) : s \in {t \in shorter : Len(t) = n - 1}, x \in S}

NameLists == SeqsUpTo(RequestedNames, MaxCalls) \ {<<>>}

\* The provider gives every tool call of a conversation its own id.
MkCalls(names, round) ==
    [i \in 1..Len(names) |-> [id |-> <<round, i>>, name |-> names[i], arguments |-> NoArgs]]

RaiseReply == [kind |-> "raise", content |-> PlainText, tool_calls |-> <<>>]
NoResponse == [kind |-> "none", content |-> PlainText, tool_calls |-> <<>>]

\* LLMResponse(content, tool_calls): finish_reason has the default "stop"
LLMResponse(content, tool_calls) ==
    [kind |-> "resp", content |-> content, tool_calls |-> tool_calls, finish_reason |-> "stop"]

----------------------------------------------------------------------------
(* LLMClient.chat: provider responses and their mapping to LLMResponse *)

\* An argument string of the function-calling protocol: the JSON text of an
\* object, or a text cut off before its end.
ArgumentString(arguments) == [json |-> arguments]
MalformedArguments == [cut |-> "{"]

\* json.loads(tc.function.arguments)
json_loads(text) ==
    IF "json" \in DOMAIN text THEN [kind |-> "ok", obj |-> text["json"]]
    ELSE [kind |-> "error", obj |-> EmptyObj]

\* x or "stop"
OrStop(x) == IF x = "None" THEN "stop" ELSE x

\* chat() raised json.JSONDecodeError
ParseFailure == [kind |-> "parse_error", content |-> PlainText, tool_calls |-> <<>>]

\* choice.message.tool_calls of a chat completion
OpenAICalls(calls, malformed) ==
    [i \in 1..Len(calls) |->
        [id |-> calls[i].id,
         function |-> [name |-> calls[i].name,
                       arguments |-> IF malformed /\ i = Len(calls)
                                     THEN MalformedArguments
                                     ELSE ArgumentString(calls[i].arguments)]]]

\* response.content of a messages response: a text block, then the tool_use blocks
AnthropicBlocks(text, calls) ==
    <<[type |-> "text", text |-> text]>>
    \o [i \in 1..Len(calls) |->
          [type |-> "tool_use", id |-> calls[i].id, name |-> calls[i].name,
           input |-> calls[i].arguments]]

\* Responses the provider may give to the round-th request of a run: a
\* final text, or tool calls; a reply with tool calls may have been stopped
\* by the token limit, and its last argument string may then be cut off.
ProviderResponses(provider, round) ==
    IF provider = "openai"
    THEN {[content |-> t, tool_calls |-> <<>>, finish_reason |-> "stop"] : t \in AgentTexts}
         \cup {[content |-> PlainText, tool_calls |-> <<>>, finish_reason |-> f] : f \in {"None", "length"}}
         \cup {[content |-> PlainText, tool_calls |-> OpenAICalls(MkCalls(names, round), FALSE),
                finish_reason |-> f] : names \in NameLists, f \in {"tool_calls", "length"}}
         \cup {[content |-> PlainText, tool_calls |-> OpenAICalls(MkCalls(names, round), TRUE),
                finish_reason |-> "length"] : names \in NameLists}
    ELSE {[content |-> AnthropicBlocks(t, <<>>), stop_reason |-> "end_turn"] : t \in AgentTexts}
         \cup {[content |-> AnthropicBlocks(PlainText, <<>>), stop_reason |-> f] : f \in {"None", "max_tokens"}}
         \cup {[content |-> AnthropicBlocks(PlainText, MkCalls(names, round)), stop_reason |-> f] :
                names \in NameLists, f \in {"tool_use", "max_tokens"}}

_chat_openai(response) ==
    LET tcs == response.tool_calls
        loaded == [i \in 1..Len(tcs) |-> json_loads(tcs[i].function.arguments)]
    IN  IF \E i \in 1..Len(tcs) : loaded[i].kind = "error"
        THEN ParseFailure
        ELSE [kind |-> "resp",
              content |-> response.content,
              tool_calls |-> [i \in 1..Len(tcs) |->
                                [id |-> tcs[i].id, name |-> tcs[i].function.name,
                                 arguments |-> loaded[i].obj]],
              finish_reason |-> OrStop(response.finish_reason)]

IsTextBlock(block) == block.type = "text"
IsToolUseBlock(block) == block.type = "tool_use"

_chat_anthropic(response) ==
    LET texts == SelectSeq(response.content, IsTextBlock)
        uses == SelectSeq(response.content, IsToolUseBlock)
    IN  [kind |-> "resp",
         content |-> IF texts = <<>> THEN PlainText ELSE texts[1].text,
         tool_calls |-> [i \in 1..Len(uses) |->
                           [id |-> uses[i].id, name |-> uses[i].name,
                            arguments |-> uses[i].input]],
         finish_reason |-> OrStop(response.stop_reason)]

chat(provider, response) ==
    IF provider = "openai" THEN _chat_openai(response) ELSE _chat_anthropic(response)

\* What llm.chat may do on the round-th call of a run: raise a transport
\* error, or map the provider's response.
Replies(provider, round) ==
    {RaiseReply} \cup {chat(provider, r) : r \in ProviderResponses(provider, round)}

----------------------------------------------------------------------------
(* LLMClient._convert_messages_for_anthropic *)

EmptyText == [fmt |-> "empty", obj |-> EmptyObj]

IsNotSystem(msg) == msg.role # "system"

\* tc["name"] and tc["arguments"] exist
HasCallKeys(tc) == {"id", "name", "arguments"} \subseteq DOMAIN tc

ConvertMessage(msg) ==
    IF msg.role = "tool"
    THEN [role |-> "user",
          content |-> <<[type |-> "tool_result",
                         tool_use_id |-> Get(msg, "tool_call_id", ""),
                         content |-> msg.content]>>]
    ELSE IF msg.role = "assistant" /\ "tool_calls" \in DOMAIN msg
    THEN [role |-> "assistant",
          content |-> (IF msg.content # EmptyText
                       THEN <<[type |-> "text", text |-> msg.content]>> ELSE <<>>)
                      \o [i \in 1..Len(msg.tool_calls) |->
                            [type |-> "tool_use",
                             id |-> msg.tool_calls[i].id,
                             name |-> msg.tool_calls[i].name,
                             input |-> msg.tool_calls[i].arguments]]]
    ELSE [role |-> msg.role, content |-> msg.content]

\* system turns are converted like every other turn
_convert_messages_keepSystem(messages) ==
    LET kept == messages
        broken == \E i \in 1..Len(kept) :
                     /\ kept[i].role = "assistant"
                     /\ "tool_calls" \in DOMAIN kept[i]
                     /\ \E j \in 1..Len(kept[i].tool_calls) : ~HasCallKeys(kept[i].tool_calls[j])
    IN  IF broken
        THEN [status |-> "raised", messages |-> <<>>]
        ELSE [status |-> "returned",
              messages |-> [i \in 1..Len(kept) |-> ConvertMessage(kept[i])]]

\* The converted list, or the KeyError of a tool call without a "name" key
_convert_messages_for_anthropic(messages) ==
    LET kept == SelectSeq(messages, IsNotSystem)
        broken == \E i \in 1..Len(kept) :
                     /\ kept[i].role = "assistant"
                     /\ "tool_calls" \in DOMAIN kept[i]
                     /\ \E j \in 1..Len(kept[i].tool_calls) : ~HasCallKeys(kept[i].tool_calls[j])
    IN  IF broken
        THEN [status |-> "raised", messages |-> <<>>]
        ELSE [status |-> "returned",
              messages |-> [i \in 1..Len(kept) |-> ConvertMessage(kept[i])]]

NotConverted == [status |-> "idle", messages |-> <<>>]

----------------------------------------------------------------------------
(* DataStore: company operations *)

\* SQL NULL in a column, Python's None in an Optional[str] field
NULL == "NULL"

\* Python's None as the value of a call
None == [type |-> "NoneType"]

\* CompanyData: the symbol and two of the eleven optional fields; the
\* other nine travel through save_company and get_company the same way
CompanyData(symbol, name, sector) ==
    [type |-> "CompanyData", symbol |-> symbol, name |-> name, sector |-> sector]

StoreSymbols == {"TEST", "OGDC"}

CompanyNames == {NULL, "Test Company", "Updated Name"}

Sectors == {NULL, "Technology"}

Companies == {CompanyData(s, n, c) : s \in StoreSymbols, n \in CompanyNames, c \in Sectors}

\* The companies table: id INTEGER PRIMARY KEY, symbol UNIQUE. A new row
\* takes the id after the largest one in the table.
NextRowId(rows) ==
    IF rows = <<>> THEN 1
    ELSE 1 + (CHOOSE m \in {rows[i].id : i \in 1..Len(rows)} :
                 \A i \in 1..Len(rows) : rows[i].id <= m)

\* SELECT ... FROM companies WHERE symbol = ?
WhereSymbol(rows, symbol) == SelectSeq(rows, LAMBDA r : r.symbol = symbol)

\* cursor.fetchone()
fetchone(rows) == IF rows = <<>> THEN None ELSE rows[1]

\* INSERT INTO companies ... ON CONFLICT(symbol) DO UPDATE SET ... = excluded. ...
InsertOrUpdate(rows, data) ==
    IF WhereSymbol(rows, data.symbol) # <<>>
    THEN [i \in 1..Len(rows) |->
            IF rows[i].symbol = data.symbol
            THEN [rows[i] EXCEPT !.name = data.name, !.sector = data.sector]
            ELSE rows[i]]
    ELSE Append(rows, [id |-> NextRowId(rows), symbol |-> data.symbol,
                       name |-> data.name, sector |-> data.sector])

save_company_keepFirst(rows, data) ==
    LET saved == IF WhereSymbol(rows, data.symbol) # <<>> THEN rows
                 ELSE InsertOrUpdate(rows, data)
    IN [companies |-> saved, returned |-> fetchone(WhereSymbol(saved, data.symbol)).id]

\* save_company: the table after the statement is committed, and the id
\* selected for the symbol
save_company(rows, data) ==
    LET saved == InsertOrUpdate(rows, data)
    IN [companies |-> saved, returned |-> fetchone(WhereSymbol(saved, data.symbol)).id]

get_company(rows, symbol) ==
    LET row == fetchone(WhereSymbol(rows, symbol))
    IN IF row = None THEN None ELSE CompanyData(row.symbol, row.name, row.sector)

\* The calls made on one DataStore are explored up to MaxStoreCalls.
MaxStoreCalls == 3

NoDatabase == [companies |-> <<>>, calls |-> <<>>]

SaveCompany ==
    /\ pc = "store"
    /\ Len(db.calls) < MaxStoreCalls
    /\ \E data \in Companies :
          LET saved == save_company(db.companies, data)
          IN db' = [companies |-> saved.companies,
                    calls |-> Append(db.calls, [op |-> "save_company", symbol |-> data.symbol,
                                                data |-> data, id |-> saved.returned])]
    /\ UNCHANGED <<supVars, run, output, converted>>

GetCompany ==
    /\ pc = "store"
    /\ Len(db.calls) < MaxStoreCalls
    /\ \E symbol \in StoreSymbols :
          db' = [db EXCEPT !.calls = Append(@, [op |-> "get_company", symbol |-> symbol,
                                                data |-> get_company(db.companies, symbol),
                                                id |-> 0])]
    /\ UNCHANGED <<supVars, run, output, converted>>

----------------------------------------------------------------------------
(* BaseAgent.run *)

_parse_output_anyObject(content) ==
    IF content.fmt \in JsonFormats THEN content.obj
    ELSE [output |-> content]

\* _parse_output: a fenced json block first, otherwise a text that starts
\* with "{"; a JSONDecodeError or neither form gives {"output": content}.
_parse_output(content) ==
    IF content.fmt = "fenced" THEN content.obj
    ELSE IF content.fmt = "bare" THEN content.obj
    ELSE [output |-> content]

ExhaustedRecord(response) ==
    [error |-> "Max iterations reached", partial_output |-> response.content]

RunLoopCondition_offByOne(rs) == rs.iteration <= rs.max_iterations

\* while iteration < self.max_iterations
RunLoopCondition(rs) == rs.iteration < rs.max_iterations

\* The while-condition of the run-loop and the code after the loop.
RunLoopHead(rs) ==
    IF RunLoopCondition(rs)
    THEN [rs EXCEPT !.pc = "await"]
    ELSE IF rs.response = NoResponse
    THEN [rs EXCEPT !.pc = "raised", !.error = "UnboundLocalError"]   \* 'response' is unbound
    ELSE [rs EXCEPT !.pc = "returned", !.result = ExhaustedRecord(rs.response)]

\* The locals of run() when it reaches the loop for the first time.
RunInit(ceiling, provider, hasContext) ==
    RunLoopHead(
        [pc |-> "await",
         provider |-> provider,
         max_iterations |-> ceiling,
         iteration |-> 0,
         messages |-> IF hasContext
                      THEN <<[role |-> "user", content |-> "context"],
                             [role |-> "user", content |-> "task"]>>
                      ELSE <<[role |-> "user", content |-> "task"]>>,
         response |-> NoResponse,
         pending |-> <<>>,
         result |-> EmptyObj,
         error |-> "none",
         chatCalls |-> 0,
         handlerCalls |-> <<>>])

ChatStep_lastRoundSkipped(rs, reply) ==
    LET called == [rs EXCEPT !.iteration = @ + 1, !.chatCalls = @ + 1]
    IN  IF reply.kind = "raise"
        THEN [called EXCEPT !.pc = "raised", !.error = "transport"]
        ELSE IF reply.kind = "parse_error"
        THEN [called EXCEPT !.pc = "raised", !.error = "JSONDecodeError"]
        ELSE IF Len(reply.tool_calls) > 0 /\ ~RunLoopCondition(called)
        THEN [called EXCEPT
                !.pc = "returned",
                !.response = reply,
                !.result = ExhaustedRecord(reply)]
        ELSE IF Len(reply.tool_calls) > 0
        THEN [called EXCEPT
                !.pc = "tools",
                !.response = reply,
                !.messages = Append(@, format_assistant_message_with_tool_calls(
                                           rs.provider, reply.content, reply.tool_calls)),
                !.pending = reply.tool_calls]
        ELSE [called EXCEPT
                !.pc = "returned",
                !.response = reply,
                !.result = _parse_output(reply.content)]

\* One pass from the top of the loop body through the model call: the
\* call raises, or the reply has tool calls (the assistant turn is appended
\* and the calls are queued), or it has none and run() returns.
ChatStep(rs, reply) ==
    LET called == [rs EXCEPT !.iteration = @ + 1, !.chatCalls = @ + 1]
    IN  IF reply.kind = "raise"
        THEN [called EXCEPT !.pc = "raised", !.error = "transport"]
        ELSE IF reply.kind = "parse_error"
        THEN [called EXCEPT !.pc = "raised", !.error = "JSONDecodeError"]
        ELSE IF Len(reply.tool_calls) > 0
        THEN [called EXCEPT
                !.pc = "tools",
                !.response = reply,
                !.messages = Append(@, format_assistant_message_with_tool_calls(
                                           rs.provider, reply.content, reply.tool_calls)),
                !.pending = reply.tool_calls]
        ELSE [called EXCEPT
                !.pc = "returned",
                !.response = reply,
                !.result = _parse_output(reply.content)]

\* the calls of a reply are taken from the end of the list
ToolStep_lastFirst(rs) ==
    LET tool_call == rs.pending[Len(rs.pending)]
        executed == _execute_tool(tool_call)
        after == [rs EXCEPT
                    !.messages = Append(@, format_tool_result_message(tool_call.id, executed.payload)),
                    !.handlerCalls = IF executed.invoked THEN Append(@, tool_call.name) ELSE @,
                    !.pending = SubSeq(@, 1, Len(@) - 1)]
    IN  IF after.pending = <<>> THEN RunLoopHead(after) ELSE after

\* One pass of the for-loop over response.tool_calls; after the last call
\* control is back at the while-condition.
ToolStep(rs) ==
    LET tool_call == Head(rs.pending)
        executed == _execute_tool(tool_call)
        after == [rs EXCEPT
                    !.messages = Append(@, format_tool_result_message(tool_call.id, executed.payload)),
                    !.handlerCalls = IF executed.invoked THEN Append(@, tool_call.name) ELSE @,
                    !.pending = Tail(@)]
    IN  IF executed.raised THEN [rs EXCEPT !.pc = "raised", !.error = "tool"]
        ELSE IF after.pending = <<>> THEN RunLoopHead(after)
        ELSE after

\* Every way a run can end from rs, over all behaviours of the model.
RECURSIVE RunOutcomes(_)
RunOutcomes(rs) ==
    IF rs.pc = "await"
    THEN UNION {RunOutcomes(ChatStep(rs, reply)) : reply \in Replies(rs.provider, rs.iteration + 1)}
    ELSE IF rs.pc = "tools"
    THEN RunOutcomes(ToolStep(rs))
    ELSE {rs}

IdleRun == [RunInit(1, "openai", FALSE) EXCEPT !.pc = "idle"]

RunChat ==
    /\ pc \in {"run", "agent"}
    /\ run.pc = "await"
    /\ \E reply \in Replies(run.provider, run.iteration + 1) : run' = ChatStep(run, reply)
    /\ UNCHANGED <<supVars, output, converted, db>>

RunTool ==
    /\ pc \in {"run", "agent"}
    /\ run.pc = "tools"
    /\ run' = ToolStep(run)
    /\ UNCHANGED <<supVars, output, converted, db>>

----------------------------------------------------------------------------
(* Specialized agents: run() = BaseAgent.run followed by _parse_to_output *)

AgentKinds == {"data", "research", "analyst"}

Vocabulary == {"STRONG_BUY", "BUY", "HOLD", "SELL", "STRONG_SELL"}

\* "Handle nested output": the wrapper's text is searched for a JSON object.
Unnest(result) ==
    IF "output" \in DOMAIN result
    THEN LET m == SearchJson(result["output"])
         IN IF m.kind = "ok" THEN m.obj ELSE result
    ELSE result

AnalystOutput(recommendation, confidence) ==
    [type |-> "AnalystOutput", recommendation |-> recommendation, confidence |-> confidence]

\* The list section whose elements the shaping step of an agent reads
\* with .get(): valuations, news_items, ratios.
SectionKey(kind) ==
    IF kind = "analyst" THEN "valuations"
    ELSE IF kind = "research" THEN "news_items" ELSE "ratios"

\* v.get(...) on an element that is not a dict
AttributeError == [type |-> "AttributeError"]

_parse_to_output_asReplied(kind, result) ==
    LET r == Unnest(result)
        items == Get(r, SectionKey(kind), <<>>)
    IN  IF \E i \in 1..Len(items) : items[i].json # "object"
        THEN AttributeError
        ELSE IF kind = "analyst"
        THEN AnalystOutput(Get(r, "recommendation", "HOLD"), Get(r, "confidence", 50))
        ELSE IF kind = "research"
        THEN [type |-> "ResearchOutput", symbol |-> Get(r, "symbol", "UNKNOWN")]
        ELSE [type |-> "DataAgentOutput", symbol |-> Get(r, "symbol", "UNKNOWN")]

_parse_to_output(kind, result) ==
    LET r == Unnest(result)
        items == Get(r, SectionKey(kind), <<>>)
    IN  IF \E i \in 1..Len(items) : items[i].json # "object"
        THEN AttributeError
        ELSE IF kind = "analyst"
        THEN LET recommendation == Get(r, "recommendation", "HOLD")
             IN AnalystOutput(IF recommendation \notin Vocabulary THEN "HOLD" ELSE recommendation,
                              Get(r, "confidence", 50))
        ELSE IF kind = "research"
        THEN [type |-> "ResearchOutput", symbol |-> Get(r, "symbol", "UNKNOWN")]
        ELSE [type |-> "DataAgentOutput", symbol |-> Get(r, "symbol", "UNKNOWN")]

\* The run-loop ceiling of a specialized agent (5, 7 and 8 in the program)
\* is explored up to MaxCeiling.
AgentCeiling(kind) == MaxCeiling

\* What one invocation of a specialized agent can give its caller: the
\* typed output, or the exception that left the run-loop.
AgentOutcome(kind, rs) ==
    IF rs.pc = "raised" \/ _parse_to_output(kind, rs.result) = AttributeError
    THEN [kind |-> "raise", output |-> EmptyObj]
    ELSE [kind |-> "return", output |-> _parse_to_output(kind, rs.result)]

NoOutput == [agent |-> "none", status |-> "idle", fields |-> EmptyObj, value |-> EmptyObj]

\* super().run(task, context) has ended: run() shapes the result, or the
\* exception goes on to the caller
Shape ==
    /\ pc = "agent"
    /\ run.pc \in {"returned", "raised"}
    /\ output.status = "pending"
    /\ IF run.pc = "raised"
       THEN output' = [output EXCEPT !.status = "raised"]
       ELSE LET shaped == _parse_to_output(output.agent, run.result)
            IN output' = [output EXCEPT
                            !.status = IF shaped = AttributeError THEN "raised" ELSE "returned",
                            !.fields = Unnest(run.result),
                            !.value = shaped]
    /\ UNCHANGED <<supVars, run, converted, db>>

AgentOutcomes ==
    [kind \in AgentKinds |->
        {AgentOutcome(kind, rs) :
            rs \in RunOutcomes(RunInit(AgentCeiling(kind), "openai", FALSE))}]

----------------------------------------------------------------------------
(* SupervisorAgent._extract_symbols *)

LowerLetters == <<"a", "b", "c", "d", "e", "f", "g", "h", "i", "j", "k", "l", "m", "n", "o", "p", "q", "r", "s", "t", "u", "v", "w", "x", "y", "z">>
UpperLetters == <<"A", "B", "C", "D", "E", "F", "G", "H", "I", "J", "K", "L", "M", "N", "O", "P", "Q", "R", "S", "T", "U", "V", "W", "X", "Y", "Z">>

Range(f) == {f[i] : i \in DOMAIN f}

\* str.upper(), one character
ToUpper(c) ==
    IF c \in Range(LowerLetters)
    THEN UpperLetters[CHOOSE i \in 1..26 : LowerLetters[i] = c]
    ELSE c

upper(s) == [i \in 1..Len(s) |-> ToUpper(s[i])]

\* \w of the regular expression
IsWordChar(c) ==
    c \in Range(LowerLetters) \cup Range(UpperLetters) \cup {"0", "1", "2", "_"}

\* \b before position i of s (i = Len(s) + 1 is the end of the text)
WordBoundary(s, i) ==
    LET before == i > 1 /\ IsWordChar(s[i - 1])
        after == i <= Len(s) /\ IsWordChar(s[i])
    IN before # after

MinSymLen == 3
MaxSymLen == 6

\* length of the match of \b([A-Z]{3,6})\b at position i, 0 when none;
\* the quantifier is greedy
MatchAt(s, i) ==
    LET fits(n) == /\ i + n - 1 <= Len(s)
                   /\ \A j \in i..(i + n - 1) : s[j] \in Range(UpperLetters)
                   /\ WordBoundary(s, i)
                   /\ WordBoundary(s, i + n)
        lengths == {n \in MinSymLen..MaxSymLen : fits(n)}
    IN IF lengths = {} THEN 0 ELSE CHOOSE n \in lengths : \A m \in lengths : m <= n

\* re.findall: non-overlapping matches, scanning left to right
RECURSIVE FindAllFrom(_, _)
FindAllFrom(s, i) ==
    IF i > Len(s) THEN <<>>
    ELSE LET n == MatchAt(s, i)
         IN IF n > 0
            THEN <<SubSeq(s, i, i + n - 1)>> \o FindAllFrom(s, i + n)
            ELSE FindAllFrom(s, i + 1)

FindAll(s) == FindAllFrom(s, 1)

stop_words ==
    { <<"T", "H", "E">>,
      <<"A", "N", "D">>,
      <<"F", "O", "R">>,
      <<"B", "U", "Y">>,
      <<"S", "E", "L", "L">>,
      <<"H", "O", "L", "D">>,
      <<"S", "T", "O", "C", "K">>,
      <<"S", "H", "O", "U", "L", "D">> }

\* list(dict.fromkeys(xs)): first occurrences, in order
RECURSIVE RemoveDuplicates(_)
RemoveDuplicates(xs) ==
    IF xs = <<>> THEN <<>>
    ELSE LET front == RemoveDuplicates(SubSeq(xs, 1, Len(xs) - 1))
             last == xs[Len(xs)]
         IN IF last \in Range(front) THEN front ELSE Append(front, last)

_extract_symbols(q) ==
    LET matches == FindAll(upper(q))
        notStop(m) == m \notin stop_words
    IN RemoveDuplicates(SelectSeq(matches, notStop))

\* Words that queries are made of
W_tell == <<"t", "e", "l", "l">>
W_me == <<"m", "e">>
W_something == <<"s", "o", "m", "e", "t", "h", "i", "n", "g">>
W_Should == <<"S", "h", "o", "u", "l", "d">>
W_I == <<"I">>
W_buy == <<"b", "u", "y">>
W_OGDCq == <<"O", "G", "D", "C", "?">>
W_OGDC == <<"O", "G", "D", "C">>
W_PPL == <<"P", "P", "L">>
W_MARI == <<"M", "A", "R", "I">>
W_ppl == <<"p", "p", "l">>
W_AB1 == <<"A", "B", "C", "1">>
W_long == <<"A", "B", "C", "D", "E", "F", "G">>

RECURSIVE JoinWords(_)
JoinWords(ws) ==
    IF ws = <<>> THEN <<>>
    ELSE IF Len(ws) = 1 THEN ws[1]
    ELSE ws[1] \o <<" ">> \o JoinWords(Tail(ws))

QueryNone == JoinWords(<<W_I, W_me>>)
QueryTell == JoinWords(<<W_tell, W_me, W_something>>)
QueryOne == JoinWords(<<W_Should, W_I, W_buy, W_OGDCq>>)
QueryTwo == JoinWords(<<W_OGDC, W_PPL, W_OGDC>>)
QueryThree == JoinWords(<<W_OGDC, W_PPL, W_MARI>>)

\* Queries given to analyze()
Queries == {QueryNone, QueryTell, QueryOne, QueryTwo, QueryThree}

----------------------------------------------------------------------------
(* SupervisorAgent: routing *)

ForeignSymbol == <<"X", "Y", "Z">>

RoutableAgents == AgentKinds \cup {"portfolio"}

\* JSON null as the value of a field, None once parsed
JsonNull == "null"

\* Symbol lists a routing reply may name
NamedLists(symbols) ==
    IF symbols = <<>> THEN {<<>>} ELSE {<<>>, <<symbols[1]>>, <<ForeignSymbol>>}

\* JSON objects a routing reply may carry
ActionObjs(symbols) ==
    {[action |-> "call_agent", agent |-> a] : a \in RoutableAgents}
    \cup {[action |-> "call_agent", agent |-> a, symbols |-> l] :
            a \in RoutableAgents, l \in NamedLists(symbols)}
    \cup { [action |-> "call_agent"],
           [action |-> "synthesize"],
           [action |-> "synthesize", recommendation |-> "SELL", confidence |-> 90],
           [action |-> "synthesize", recommendation |-> "MAYBE", confidence |-> 150],
           [action |-> "call_agent", agent |-> JsonNull],
           [action |-> "done"],
           [action |-> "wait"],
           EmptyObj }

\* What the routing llm.chat may do: raise a transport error or return a text
RoutingReplies(symbols) ==
    {RaiseReply} \cup {LLMResponse(t, <<>>) : t \in TextsOf(ActionObjs(symbols))}

\* the default looks at the symbols before it looks at the collected data
_plan_next_action_symbolsFirst(st, response) ==
    LET m == SearchJson(response.content)
    IN  IF m.kind = "ok" THEN m.obj
        ELSE IF st.symbols # <<>>
        THEN [action |-> "call_agent", agent |-> "data", symbols |-> <<st.symbols[1]>>,
              task |-> <<"Get data for", st.symbols[1]>>]
        ELSE IF st.data # <<>> THEN [action |-> "synthesize"]
        ELSE [action |-> "done"]

\* _plan_next_action after the model call: the JSON object found in the
\* reply, otherwise the defaults
_plan_next_action(st, response) ==
    LET m == SearchJson(response.content)
    IN  IF m.kind = "ok" THEN m.obj
        ELSE IF st.data # <<>> THEN [action |-> "synthesize"]
        ELSE IF st.symbols # <<>>
        THEN [action |-> "call_agent", agent |-> "data", symbols |-> <<st.symbols[1]>>,
              task |-> <<"Get data for", st.symbols[1]>>]
        ELSE [action |-> "done"]

----------------------------------------------------------------------------
(* SupervisorAgent: report *)

Number(n) == [num |-> n, den |-> 1]

RECURSIVE Sum(_)
Sum(xs) == IF xs = <<>> THEN 0 ELSE Head(xs) + Sum(Tail(xs))

\* sum(confidences) / len(confidences)
Mean(xs) == [num |-> Sum(xs), den |-> Len(xs)]

Occurrences(xs, x) == Cardinality({i \in 1..Len(xs) : xs[i] = x})

\* ties go to the element seen last
MostCommon_lastSeen(xs) ==
    LET seen == RemoveDuplicates(xs)
        best == CHOOSE i \in 1..Len(seen) :
                    /\ \A j \in 1..Len(seen) : Occurrences(xs, seen[j]) <= Occurrences(xs, seen[i])
                    /\ \A j \in (i + 1)..Len(seen) : Occurrences(xs, seen[j]) < Occurrences(xs, seen[i])
    IN seen[best]

\* Counter(xs).most_common(1)[0][0]: the counter keeps first-seen order and
\* the first element with the largest count is taken
MostCommon(xs) ==
    LET seen == RemoveDuplicates(xs)
        best == CHOOSE i \in 1..Len(seen) :
                    /\ \A j \in 1..Len(seen) : Occurrences(xs, seen[j]) <= Occurrences(xs, seen[i])
                    /\ \A j \in 1..(i - 1) : Occurrences(xs, seen[j]) < Occurrences(xs, seen[i])
    IN seen[best]

IsAnalystOutput(v) == v.type = "AnalystOutput"

\* Lines 376-398: recommendation and confidence of the report
Recommend(st, synth_arg) ==
    LET outputs == SelectSeq(DictValues(st.analysis), IsAnalystOutput)
        recommendations == [i \in 1..Len(outputs) |-> outputs[i].recommendation]
        confidences == [i \in 1..Len(outputs) |-> outputs[i].confidence]
    IN  IF recommendations # <<>>
        THEN [recommendation |-> MostCommon(recommendations),
              confidence |-> Mean(confidences)]
        ELSE [recommendation |-> Get(synth_arg, "recommendation", "HOLD"),
              confidence |-> Number(Get(synth_arg, "confidence", 50))]

SynthObjs ==
    { [reasoning |-> "thesis"],
      [reasoning |-> "thesis", recommendation |-> "SELL", confidence |-> 90] }

\* What the synthesis llm.chat may do
SynthReplies == {RaiseReply} \cup {LLMResponse(t, <<>>) : t \in TextsOf(SynthObjs)}

\* Lines 415-437: the synthesis object, {} when the call or the parse fails
ParseSynthesis(reply) ==
    IF reply.kind = "raise" THEN EmptyObj
    ELSE LET m == SearchJson(reply.content)
         IN IF m.kind = "ok" THEN m.obj ELSE EmptyObj

AnalysisReport(q, symbols, rec, data, research, analysis, synth) ==
    [query |-> q, symbols |-> symbols,
     recommendation |-> rec.recommendation, confidence |-> rec.confidence,
     data |-> data, research |-> research, analysis |-> analysis,
     reasoning |-> Get(synth, "reasoning", "")]

\* the synthesis object's own recommendation and confidence win
_create_report_synthesisWins(st, q, synth_arg, reply) ==
    LET synth == ParseSynthesis(reply)
        rec == Recommend(st, synth_arg)
        chosen == [recommendation |-> Get(synth, "recommendation", rec.recommendation),
                   confidence |-> IF "confidence" \in DOMAIN synth
                                  THEN Number(synth["confidence"]) ELSE rec.confidence]
    IN AnalysisReport(q, st.symbols, chosen, st.data, st.research, st.analysis, synth)

_create_report(st, q, synth_arg, reply) ==
    LET rec == Recommend(st, synth_arg)
        synth == ParseSynthesis(reply)
    IN AnalysisReport(q, st.symbols, rec, st.data, st.research, st.analysis, synth)

NoReport == [query |-> <<>>, symbols |-> <<>>, recommendation |-> "none",
             confidence |-> Number(0), data |-> <<>>, research |-> <<>>,
             analysis |-> <<>>, reasoning |-> "none"]

----------------------------------------------------------------------------
(* SupervisorAgent.analyze *)

AnalysisState ==
    [symbols |-> <<>>, data |-> <<>>, research |-> <<>>, analysis |-> <<>>,
     iteration |-> 0, errors |-> <<>>]

NoAction == EmptyObj
NoCall == [agent |-> "none", symbol |-> <<>>, context |-> EmptyObj]

LoopCondition_offByOne(st, ceiling) == st.iteration <= ceiling

\* while state.iteration < self.max_iterations
LoopCondition(st, ceiling) == st.iteration < ceiling

\* the planning loop is entered without the test for an empty symbol list
Start_noShortCircuit ==
    /\ pc = "start"
    /\ state' = [state EXCEPT !.symbols = _extract_symbols(query)]
    /\ pc' = "loop"
    /\ UNCHANGED <<query, max_iterations, next_action, batch, report, routingCalls,
                   synthCalls, agentCalls, lastCall, synthesis, json_match,
                   run, output, converted, db>>

\* Lines 192-206: extract the symbols; no symbols returns at once
Start ==
    /\ pc = "start"
    /\ LET symbols == _extract_symbols(query)
       IN /\ state' = [state EXCEPT !.symbols = symbols]
          /\ IF symbols = <<>>
             THEN /\ report' = AnalysisReport(query, <<>>,
                                   [recommendation |-> "HOLD", confidence |-> Number(0)],
                                   <<>>, <<>>, <<>>, EmptyObj)
                  /\ pc' = "done"
             ELSE /\ report' = report
                  /\ pc' = "loop"
    /\ UNCHANGED <<query, max_iterations, next_action, batch, routingCalls,
                   synthCalls, agentCalls, lastCall, synthesis, json_match,
                   run, output, converted, db>>

\* Lines 209-232: one pass of the planning loop up to the dispatch
Plan ==
    /\ pc = "loop"
    /\ LoopCondition(state, max_iterations)
    /\ \E reply \in RoutingReplies(state.symbols) :
         LET st == [state EXCEPT !.iteration = @ + 1]
             act == _plan_next_action(st, reply)
             kind == Get(act, "action", "none")
         IN /\ state' = st
            /\ routingCalls' = routingCalls + 1
            /\ IF reply.kind = "raise"
               THEN /\ pc' = "raised"
                    /\ UNCHANGED <<next_action, batch, synthesis, json_match>>
               ELSE /\ next_action' = act
                    /\ json_match' = SearchJson(reply.content).kind
                    /\ IF kind = "call_agent" /\ Get(act, "agent", "unknown") = JsonNull
                       THEN /\ pc' = "raised"        \* agent_type.upper() on None
                            /\ UNCHANGED <<batch, synthesis>>
                       ELSE IF kind = "call_agent"
                       THEN /\ batch' = Get(act, "symbols", st.symbols)
                            /\ pc' = IF batch' = <<>> THEN "loop" ELSE "delegate"
                            /\ synthesis' = synthesis
                       ELSE /\ batch' = batch
                            /\ pc' = "synth"
                            /\ synthesis' = IF kind = "synthesize" THEN act
                                            ELSE [action |-> "synthesize"]
    /\ UNCHANGED <<query, max_iterations, report, synthCalls, agentCalls, lastCall,
                   run, output, converted, db>>

\* Lines 209 and 234-236: the ceiling ends the loop
Exhaust ==
    /\ pc = "loop"
    /\ ~LoopCondition(state, max_iterations)
    /\ pc' = "synth"
    /\ synthesis' = [action |-> "synthesize"]
    /\ UNCHANGED <<query, state, max_iterations, next_action, batch, report,
                   routingCalls, synthCalls, agentCalls, lastCall, json_match,
                   run, output, converted, db>>

Context_firstEntry(st, agent_type, symbol) ==
    LET present == (IF agent_type \in {"research", "analyst"} /\ st.data # <<>>
                    THEN {"data"} ELSE {})
                   \cup
                   (IF agent_type = "analyst" /\ st.research # <<>>
                    THEN {"research"} ELSE {})
    IN [k \in present |-> IF k = "data" THEN st.data[1].v ELSE st.research[1].v]

\* The context dict built for the Research and the Analyst agent
Context(st, agent_type, symbol) ==
    LET present == (IF agent_type \in {"research", "analyst"} /\ symbol \in DictKeys(st.data)
                    THEN {"data"} ELSE {})
                   \cup
                   (IF agent_type = "analyst" /\ symbol \in DictKeys(st.research)
                    THEN {"research"} ELSE {})
    IN [k \in present |-> IF k = "data" THEN DictGet(st.data, symbol)
                          ELSE DictGet(st.research, symbol)]

Store_alsoData(st, agent_type, symbol, outcome) ==
    IF outcome.kind = "raise"
    THEN [st EXCEPT !.errors = Append(@, [agent |-> agent_type, symbol |-> symbol])]
    ELSE IF agent_type = "data" THEN [st EXCEPT !.data = DictSet(@, symbol, outcome.output)]
    ELSE IF agent_type = "research"
    THEN [st EXCEPT !.research = DictSet(@, symbol, outcome.output),
                    !.data = DictSet(@, symbol, outcome.output)]
    ELSE [st EXCEPT !.analysis = DictSet(@, symbol, outcome.output)]

\* state after the agent invoked for symbol gave outcome
Store(st, agent_type, symbol, outcome) ==
    IF outcome.kind = "raise"
    THEN [st EXCEPT !.errors = Append(@, [agent |-> agent_type, symbol |-> symbol])]
    ELSE IF agent_type = "data" THEN [st EXCEPT !.data = DictSet(@, symbol, outcome.output)]
    ELSE IF agent_type = "research" THEN [st EXCEPT !.research = DictSet(@, symbol, outcome.output)]
    ELSE [st EXCEPT !.analysis = DictSet(@, symbol, outcome.output)]

Delegate_unknownIsLogged ==
    /\ pc = "delegate"
    /\ batch # <<>>
    /\ LET symbol == Head(batch)
           agent_type == Get(next_action, "agent", "")
       IN IF agent_type \in AgentKinds
          THEN /\ \E outcome \in AgentOutcomes[agent_type] :
                    state' = Store(state, agent_type, symbol, outcome)
               /\ agentCalls' = agentCalls + 1
               /\ lastCall' = [agent |-> agent_type, symbol |-> symbol,
                               context |-> Context(state, agent_type, symbol)]
          ELSE /\ state' = [state EXCEPT
                              !.errors = Append(@, [agent |-> agent_type, symbol |-> symbol])]
               /\ UNCHANGED <<agentCalls, lastCall>>
    /\ batch' = Tail(batch)
    /\ pc' = IF Tail(batch) = <<>> THEN "loop" ELSE "delegate"
    /\ UNCHANGED <<query, max_iterations, next_action, report, routingCalls,
                   synthCalls, synthesis, json_match, run, output, converted, db>>

\* _execute_agent_call, one pass of its loop over the symbols
Delegate ==
    /\ pc = "delegate"
    /\ batch # <<>>
    /\ LET symbol == Head(batch)
           agent_type == Get(next_action, "agent", "")
       IN IF agent_type \in AgentKinds
          THEN /\ \E outcome \in AgentOutcomes[agent_type] :
                    state' = Store(state, agent_type, symbol, outcome)
               /\ agentCalls' = agentCalls + 1
               /\ lastCall' = [agent |-> agent_type, symbol |-> symbol,
                               context |-> Context(state, agent_type, symbol)]
          ELSE UNCHANGED <<state, agentCalls, lastCall>>
    /\ batch' = Tail(batch)
    /\ pc' = IF Tail(batch) = <<>> THEN "loop" ELSE "delegate"
    /\ UNCHANGED <<query, max_iterations, next_action, report, routingCalls,
                   synthCalls, synthesis, json_match, run, output, converted, db>>

\* _create_report
Synthesize ==
    /\ pc = "synth"
    /\ \E reply \in SynthReplies :
         report' = _create_report(state, query, synthesis, reply)
    /\ synthCalls' = synthCalls + 1
    /\ pc' = "done"
    /\ UNCHANGED <<query, state, max_iterations, next_action, batch,
                   routingCalls, agentCalls, lastCall, synthesis, json_match,
                   run, output, converted, db>>

----------------------------------------------------------------------------
(* Specifications *)

SupInit ==
    /\ state = AnalysisState
    /\ next_action = NoAction
    /\ batch = <<>>
    /\ report = NoReport
    /\ routingCalls = 0
    /\ synthCalls = 0
    /\ agentCalls = 0
    /\ lastCall = NoCall
    /\ synthesis = NoAction
    /\ json_match = "none"

\* analyze(query) on a constructed SupervisorAgent
Init ==
    /\ pc = "start"
    /\ query \in Queries
    /\ max_iterations \in 1..MaxSupIter
    /\ SupInit
    /\ run = IdleRun
    /\ output = NoOutput
    /\ converted = NotConverted
    /\ db = NoDatabase

Next == Start \/ Plan \/ Exhaust \/ Delegate \/ Synthesize

Spec == Init /\ [][Next]_vars

\* run(task, context) on a constructed BaseAgent
InitRun ==
    /\ pc = "run"
    /\ query = <<>>
    /\ max_iterations = 1
    /\ SupInit
    /\ run \in {RunInit(n, p, c) : n \in 1..MaxCeiling, p \in Providers, c \in BOOLEAN}
    /\ output = NoOutput
    /\ converted = NotConverted
    /\ db = NoDatabase

NextRun == RunChat \/ RunTool

SpecRun == InitRun /\ [][NextRun]_vars

\* _extract_symbols on its own, over many queries
MaxQueryWords == 3

QueryWords == {W_tell, W_me, W_something, W_Should, W_I, W_buy, W_OGDCq,
               W_OGDC, W_ppl, W_AB1, W_long}

ExtractQueries == {JoinWords(ws) : ws \in SeqsUpTo(QueryWords, MaxQueryWords)}

InitExtract ==
    /\ pc = "start"
    /\ query \in ExtractQueries
    /\ max_iterations = 1
    /\ SupInit
    /\ run = IdleRun
    /\ output = NoOutput
    /\ converted = NotConverted
    /\ db = NoDatabase

NextExtract == Start

SpecExtract == InitExtract /\ [][NextExtract]_vars

\* analyze(query) when every model call and agent invocation returns or
\* raises: a step of the planning loop, of a delegation or of the synthesis
\* that can be taken is eventually taken
SpecLive == Init /\ [][Next]_vars /\ WF_vars(Plan \/ Exhaust \/ Delegate \/ Synthesize)

\* run(task, context) for any integer ceiling an AgentConfig can hold, zero included
InitRunAny ==
    /\ pc = "run"
    /\ query = <<>>
    /\ max_iterations = 1
    /\ SupInit
    /\ run \in {RunInit(n, p, c) : n \in 0..MaxCeiling, p \in Providers, c \in BOOLEAN}
    /\ output = NoOutput
    /\ converted = NotConverted
    /\ db = NoDatabase

SpecRunAny == InitRunAny /\ [][NextRun]_vars

\* run(task) of a specialized agent: the run-loop, then the shaping step
InitAgent ==
    /\ pc = "agent"
    /\ query = <<>>
    /\ max_iterations = 1
    /\ SupInit
    /\ run \in {RunInit(n, p, FALSE) : n \in 1..MaxCeiling, p \in Providers}
    /\ output \in {[NoOutput EXCEPT !.agent = k, !.status = "pending"] : k \in AgentKinds}
    /\ converted = NotConverted
    /\ db = NoDatabase

NextAgent == RunChat \/ RunTool \/ Shape

SpecAgent == InitAgent /\ [][NextAgent]_vars

\* _convert_messages_for_anthropic on conversations built by a client of
\* either provider
MaxTurns == 3

ConvCalls(names) ==
    [i \in 1..Len(names) |-> [id |-> <<1, i>>, name |-> names[i], arguments |-> [symbol |-> names[i]]]]

Turns(provider) ==
    { [role |-> "system", content |-> PlainText],
      [role |-> "user", content |-> PlainText],
      [role |-> "assistant", content |-> PlainText] }
    \cup {format_assistant_message_with_tool_calls(provider, c, ConvCalls(names)) :
            c \in {EmptyText, PlainText}, names \in {<<"A">>, <<"B", "A">>}}
    \cup {format_tool_result_message(<<1, i>>, ToolValue("A")) : i \in 1..2}

Conversations(provider) == SeqsUpTo(Turns(provider), MaxTurns)

Convert ==
    /\ pc = "convert"
    /\ converted' = _convert_messages_for_anthropic(run.messages)
    /\ pc' = "converted"
    /\ UNCHANGED <<query, state, max_iterations, next_action, batch, report,
                   routingCalls, synthCalls, agentCalls, lastCall, synthesis,
                   json_match, run, output, db>>

InitConvert ==
    /\ pc = "convert"
    /\ query = <<>>
    /\ max_iterations = 1
    /\ SupInit
    /\ \E p \in Providers : \E m \in Conversations(p) :
          run = [IdleRun EXCEPT !.provider = p, !.messages = m]
    /\ output = NoOutput
    /\ converted = NotConverted
    /\ db = NoDatabase

NextConvert == Convert

SpecConvert == InitConvert /\ [][NextConvert]_vars

\* save_company and get_company calls on a DataStore over an empty,
\* migrated database
InitStore ==
    /\ pc = "store"
    /\ query = <<>>
    /\ max_iterations = 1
    /\ SupInit
    /\ run = IdleRun
    /\ output = NoOutput
    /\ converted = NotConverted
    /\ db = NoDatabase

NextStore == SaveCompany \/ GetCompany

SpecStore == InitStore /\ [][NextStore]_vars

\* SupervisorAgent.__init__: max_iterations: int = 5
DefaultSupIter == 5

\* the typed output of an agent whose final JSON names the symbol
OutputNaming(kind, symbol) == _parse_to_output(kind, [symbol |-> symbol])

\* the maps an earlier delegation of one kind can have left: entries for
\* some of the symbols, in the order they were stored
MapsLeftBy(kind, symbols) ==
    {[i \in 1..Len(l) |-> [k |-> l[i], v |-> OutputNaming(kind, l[i])]] :
        l \in {m \in SeqsUpTo(Range(symbols), Len(symbols)) :
                  \A i, j \in 1..Len(m) : i # j => m[i] # m[j]}}

\* _execute_agent_call in a later planning iteration of analyze(query):
\* earlier delegations have stored data and research outputs
InitDispatch ==
    /\ pc = "delegate"
    /\ query = QueryTwo
    /\ max_iterations = DefaultSupIter
    /\ \E d \in MapsLeftBy("data", _extract_symbols(QueryTwo)) :
       \E r \in MapsLeftBy("research", _extract_symbols(QueryTwo)) :
          LET earlier == (IF d = <<>> THEN 0 ELSE 1) + (IF r = <<>> THEN 0 ELSE 1)
          IN /\ state = [AnalysisState EXCEPT !.symbols = _extract_symbols(QueryTwo),
                                              !.data = d, !.research = r,
                                              !.iteration = earlier + 1]
             /\ routingCalls = earlier + 1
             /\ agentCalls = Len(d) + Len(r)
    /\ next_action \in {[action |-> "call_agent", agent |-> a, symbols |-> l] :
                          a \in RoutableAgents,
                          l \in (SeqsUpTo(Range(state.symbols), Len(state.symbols)) \ {<<>>})
                                \cup {<<ForeignSymbol>>}}
    /\ batch = next_action["symbols"]
    /\ report = NoReport
    /\ synthCalls = 0
    /\ lastCall = NoCall
    /\ synthesis = NoAction
    /\ json_match = "ok"
    /\ run = IdleRun
    /\ output = NoOutput
    /\ converted = NotConverted
    /\ db = NoDatabase

NextDispatch == Delegate

SpecDispatch == InitDispatch /\ [][NextDispatch]_vars

----------------------------------------------------------------------------
(* Properties *)

CallNames(calls) == [i \in 1..Len(calls) |-> calls[i].name]

\* C1: a run with ceiling N never makes more than N model calls; when every
\* reply requested a tool call, the run has made exactly N calls when it
\* ends, and it ends by returning the exhausted-budget record.
C1_CeilingBoundsRoundTrips ==
    /\ run.chatCalls <= run.max_iterations
    /\ (run.pc = "await" => run.chatCalls < run.max_iterations)
    /\ (run.pc = "returned" /\ run.response.tool_calls # <<>> =>
            /\ run.chatCalls = run.max_iterations
            /\ run.result = [error |-> "Max iterations reached",
                             partial_output |-> run.response.content])

C1_Witness ==
    /\ run.pc = "returned"
    /\ run.max_iterations = MaxCeiling
    /\ run.chatCalls = MaxCeiling
    /\ run.response.tool_calls # <<>>
    /\ "error" \in DOMAIN run.result

C3_AnalyzeNeverRaises == pc # "raised"

\* C4: a reply requesting A (handler raises) and B (handler succeeds), in
\* either order, appends after its assistant turn exactly two tool-result
\* turns, A's an error payload and B's the real result, both handlers having
\* been invoked; no exception leaves the tool round, and the next model call
\* follows while the budget lasts.
C4_FailingToolKeepsRound ==
    LET calls == run.response.tool_calls
        names == CallNames(calls)
        n == Len(run.messages)
        h == Len(run.handlerCalls)
    IN /\ (run.pc = "raised" => run.pending = <<>>)
       /\ (names \in {<<"A", "B">>, <<"B", "A">>} /\ run.pending = <<>> =>
            /\ n >= 3
            /\ run.messages[n - 2].role = "assistant"
            /\ Len(run.messages[n - 2].tool_calls) = 2
            /\ \A i \in 1..2 :
                 /\ run.messages[n - 2 + i].role = "tool"
                 /\ run.messages[n - 2 + i].tool_call_id = calls[i].id
                 /\ IF names[i] = "A"
                    THEN DOMAIN run.messages[n - 2 + i].content = {"error"}
                    ELSE run.messages[n - 2 + i].content = [value |-> "B"]
            /\ h >= 2
            /\ SubSeq(run.handlerCalls, h - 1, h) = names
            /\ (run.pc # "raised" /\ run.iteration < run.max_iterations => run.pc = "await"))

C4_Witness ==
    /\ run.pc = "await"
    /\ run.pending = <<>>
    /\ CallNames(run.response.tool_calls) = <<"A", "B">>
    /\ run.handlerCalls = <<"A", "B">>

\* C5: executing a call to a tool that is not registered invokes no handler,
\* appends an error payload as that call's tool-result turn and leaves the
\* run-loop running.
C5_UnknownToolIsErrorPayload ==
    [][run.pc = "tools" /\ Head(run.pending).name \notin tools =>
        /\ run'.handlerCalls = run.handlerCalls
        /\ Len(run'.messages) = Len(run.messages) + 1
        /\ LET m == run'.messages[Len(run'.messages)]
           IN /\ m.role = "tool"
              /\ m.tool_call_id = Head(run.pending).id
              /\ DOMAIN m.content = {"error"}
        /\ run'.pending = Tail(run.pending)
        /\ run'.pc # "raised"]_vars

C5_Witness ==
    /\ run.pc = "await"
    /\ CallNames(run.response.tool_calls) = <<"U">>
    /\ run.handlerCalls = <<>>
    /\ run.messages[Len(run.messages)].role = "tool"
    /\ DOMAIN run.messages[Len(run.messages)].content = {"error"}

MapOf(st, agent_type) ==
    IF agent_type = "data" THEN st.data
    ELSE IF agent_type = "research" THEN st.research ELSE st.analysis

\* C6: in a delegation batch every symbol is invoked in list order; an
\* invocation that raises appends exactly one error-log entry naming its
\* symbol and writes no entry, the others store their results; and after a
\* failed invocation the run still reaches synthesis and returns a report,
\* that is, it does not end by an exception.
C6_FailedSymbolDoesNotAbort ==
    /\ [][pc = "delegate" /\ Get(next_action, "agent", "") \in AgentKinds =>
            LET agent_type == next_action["agent"]
                symbol == Head(batch)
                entry == [agent |-> agent_type, symbol |-> symbol]
            IN /\ agentCalls' = agentCalls + 1
               /\ lastCall'.symbol = symbol
               /\ batch' = Tail(batch)
               /\ pc' = IF Tail(batch) = <<>> THEN "loop" ELSE "delegate"
               /\ \/ /\ state'.errors = Append(state.errors, entry)
                     /\ state'.data = state.data
                     /\ state'.research = state.research
                     /\ state'.analysis = state.analysis
                  \/ /\ state'.errors = state.errors
                     /\ symbol \in DictKeys(MapOf(state', agent_type))]_vars
    /\ [](state.errors # <<>> => pc # "raised")

\* C7: with no symbol extracted analyze returns symbols=[], HOLD and
\* confidence 0.0, and no routing call, agent invocation or synthesis call
\* has been made.
C7_NoSymbolsShortCircuit ==
    (pc # "start" /\ state.symbols = <<>>) =>
        /\ pc = "done"
        /\ report.symbols = <<>>
        /\ report.recommendation = "HOLD"
        /\ report.confidence = [num |-> 0, den |-> 1]
        /\ routingCalls = 0
        /\ agentCalls = 0
        /\ synthCalls = 0

C7_Witness ==
    /\ pc = "done"
    /\ query = QueryNone
    /\ state.symbols = <<>>
    /\ report.recommendation = "HOLD"

\* the uppercase tokens of 3 to 6 letters of a text
UppercaseTokens(text) == FindAll(text)

IsFirstOccurrence(xs, i) == \A j \in 1..(i - 1) : xs[j] # xs[i]

\* C8: the extracted symbols are, in first-occurrence order and without
\* duplicates, exactly the tokens of the raw query that are uppercase, 3 to
\* 6 letters long and not stop words; "tell me something" gives no symbol
\* and "Should I buy OGDC?" gives OGDC.
C8_SymbolsAreUppercaseTokens ==
    pc # "start" =>
        LET tokens == UppercaseTokens(query)
            kept == {i \in 1..Len(tokens) :
                        tokens[i] \notin stop_words /\ IsFirstOccurrence(tokens, i)}
        IN /\ Len(state.symbols) = Cardinality(kept)
           /\ \A i \in kept :
                state.symbols[Cardinality({j \in kept : j <= i})] = tokens[i]
           /\ (query = QueryTell => state.symbols = <<>>)
           /\ (query = QueryOne => state.symbols = <<W_OGDC>>)

ReportRecommendations == [i \in 1..Len(report.analysis) |-> report.analysis[i].v.recommendation]
ReportConfidences == [i \in 1..Len(report.analysis) |-> report.analysis[i].v.confidence]

CountOf(xs, x) == Cardinality({i \in 1..Len(xs) : xs[i] = x})
FirstIndexOf(xs, x) == CHOOSE i \in 1..Len(xs) : xs[i] = x /\ \A j \in 1..(i - 1) : xs[j] # x

RECURSIVE Total(_, _)
Total(xs, n) == IF n = 0 THEN 0 ELSE xs[n] + Total(xs, n - 1)

\* C9: with at least one Analyst output collected, the report's
\* recommendation is a most frequent one among the outputs, the first seen
\* among the most frequent, and its confidence is their arithmetic mean.
C9_ModeAndMean ==
    (pc = "done" /\ report.analysis # <<>>) =>
        LET recs == ReportRecommendations
            confs == ReportConfidences
            winner == report.recommendation
        IN /\ CountOf(recs, winner) > 0
           /\ \A i \in 1..Len(recs) :
                /\ CountOf(recs, recs[i]) <= CountOf(recs, winner)
                /\ CountOf(recs, recs[i]) = CountOf(recs, winner)
                      => FirstIndexOf(recs, winner) <= i
           /\ report.confidence.den > 0
           /\ report.confidence.num * Len(confs) = Total(confs, Len(confs)) * report.confidence.den

C9_Witness ==
    /\ pc = "done"
    /\ ReportRecommendations = <<"BUY", "BUY", "HOLD">>
    /\ report.recommendation = "BUY"
    /\ report.confidence = [num |-> 180, den |-> 3]

FailedSynthesis == {RaiseReply, LLMResponse(PlainText, <<>>), LLMResponse(BadJsonText, <<>>)}

C11_ParseFailureDefaults ==
    /\ [][routingCalls' = routingCalls + 1 /\ pc' # "raised" /\ json_match' # "ok" =>
            IF state.data # <<>>
            THEN /\ next_action' = [action |-> "synthesize"]
                 /\ pc' = "synth"
            ELSE /\ state.symbols # <<>>
                 /\ next_action'["action"] = "call_agent"
                 /\ next_action'["agent"] = "data"
                 /\ next_action'["symbols"] = <<state.symbols[1]>>
                 /\ batch' = <<state.symbols[1]>>
                 /\ pc' = "delegate"]_vars
    /\ [](\A text \in {PlainText, BadJsonText} :
            _plan_next_action(AnalysisState, LLMResponse(text, <<>>)) = [action |-> "done"])

C11_Witness ==
    /\ pc = "synth"
    /\ json_match \in {"nomatch", "error"}
    /\ state.data # <<>>
    /\ Len(state.symbols) >= 2
    /\ next_action = [action |-> "synthesize"]

\* C12: when every call returns or raises, analyze, once it has extracted
\* the symbols, eventually returns its report, whatever the routing replies
\* are; and with replies that are not parseable the first iteration
\* delegates to the Data agent for the first symbol and an iteration that
\* finds a data entry goes to synthesis.
C12_ForwardProgress ==
    /\ (pc # "start") ~> (pc = "done")
    /\ [][routingCalls' = routingCalls + 1 /\ pc' # "raised" /\ json_match' # "ok" =>
            /\ (state.iteration = 0 =>
                    /\ pc' = "delegate"
                    /\ Get(next_action', "agent", "") = "data"
                    /\ batch' = <<state.symbols[1]>>)
            /\ (state.data # <<>> => pc' = "synth")]_vars

\* C13: a provider response that cannot be mapped into an LLMResponse (a
\* tool call whose argument string is malformed JSON) does not end the run
\* by an exception.
C13_ParseFailureDoesNotCrash == ~(run.pc = "raised" /\ run.error = "JSONDecodeError")

IsToolCallTurn(msg) == msg.role = "assistant" /\ "tool_calls" \in DOMAIN msg

TurnName(provider, tc) == IF provider = "openai" THEN tc.function.name ELSE tc.name

\* names of the registered tools requested by the tool-call turns, in order
RECURSIVE RequestedHandlers(_, _)
RequestedHandlers(provider, msgs) ==
    IF msgs = <<>> THEN <<>>
    ELSE LET msg == Head(msgs)
             names == IF IsToolCallTurn(msg)
                      THEN [j \in 1..Len(msg.tool_calls) |-> TurnName(provider, msg.tool_calls[j])]
                      ELSE <<>>
             registered(n) == n \in tools
         IN SelectSeq(names, registered) \o RequestedHandlers(provider, Tail(msgs))

\* C14: every tool call of a reply is executed once, in the order listed,
\* and its result is appended as a tool-result turn with the call's id; at
\* every model call no tool call is unterminated: each tool-call turn is
\* followed by one result turn per call, in the same order, and no other
\* result turn exists.
C14_ToolCallsAnsweredInOrder ==
    LET msgs == run.messages
        n == Len(msgs)
        lastTurn(i) == \A k \in (i + 1)..n : ~IsToolCallTurn(msgs[k])
        answered(i) == IF lastTurn(i)
                       THEN Len(msgs[i].tool_calls) - Len(run.pending)
                       ELSE Len(msgs[i].tool_calls)
        pendingNames == [j \in 1..Len(run.pending) |-> run.pending[j].name]
        registered(name) == name \in tools
    IN /\ (run.pc \in {"await", "returned"} => run.pending = <<>>)
       /\ \A i \in 1..n : IsToolCallTurn(msgs[i]) =>
             /\ i + answered(i) <= n
             /\ \A j \in 1..answered(i) :
                  /\ msgs[i + j].role = "tool"
                  /\ msgs[i + j].tool_call_id = msgs[i].tool_calls[j].id
             /\ (i + answered(i) < n => msgs[i + answered(i) + 1].role # "tool")
       /\ \A i \in 1..n : msgs[i].role = "tool" =>
             \E k \in 1..(i - 1) : IsToolCallTurn(msgs[k]) /\ i <= k + Len(msgs[k].tool_calls)
       /\ run.handlerCalls \o SelectSeq(pendingNames, registered)
             = RequestedHandlers(run.provider, msgs)

C14_Witness ==
    /\ run.pc = "await"
    /\ run.iteration = 1
    /\ CallNames(run.response.tool_calls) = <<"B", "A">>
    /\ run.handlerCalls = <<"B", "A">>
    /\ run.messages[Len(run.messages) - 1].tool_call_id = run.response.tool_calls[1].id
    /\ run.messages[Len(run.messages)].tool_call_id = run.response.tool_calls[2].id

\* C15: for every ceiling, a run that ends without a reply free of tool
\* calls and without a failed model call returns the record with the error
\* and the text of the last reply; it does not raise.
C15_ExhaustedNeverRaises ==
    (run.pc = "raised" => run.error \in {"transport", "JSONDecodeError"})
    /\ (run.pc = "returned" /\ run.response.tool_calls # <<>> =>
            run.result = [error |-> "Max iterations reached",
                          partial_output |-> run.response.content])

\* C16: a reply produced by chat that has tool calls has a finish reason
\* saying that tools were requested.
C16_ToolCallsImplyToolStop ==
    (run.response.kind = "resp" /\ run.response.tool_calls # <<>>) =>
        run.response.finish_reason \in {"tool_calls", "tool_use"}

IsToolResultTurn(msg) == msg.role = "tool"

\* name, id and arguments of the calls of a tool-call turn built by a client
TurnCalls(provider, msg) ==
    [j \in 1..Len(msg.tool_calls) |->
        IF provider = "openai"
        THEN [id |-> msg.tool_calls[j].id, name |-> msg.tool_calls[j].function.name,
              arguments |-> msg.tool_calls[j].function.arguments["json"]]
        ELSE [id |-> msg.tool_calls[j].id, name |-> msg.tool_calls[j].name,
              arguments |-> msg.tool_calls[j].arguments]]

\* the same facts read from the tool_use blocks of a converted turn
BlockCalls(msg) ==
    LET uses == SelectSeq(msg.content, IsToolUseBlock)
    IN [j \in 1..Len(uses) |-> [id |-> uses[j].id, name |-> uses[j].name, arguments |-> uses[j].input]]

\* C17: a conversation built for the function-calling protocol, with text
\* turns, tool-call turns and tool-result turns, is translated for the
\* other protocol without failure and keeps every tool name, call id,
\* argument object and result content.
C17_TranslationKeepsToolFacts ==
    (pc = "converted" /\ run.provider = "openai") =>
        /\ converted.status = "returned"
        /\ LET src == SelectSeq(run.messages, IsNotSystem)
               dst == converted.messages
           IN /\ Len(dst) = Len(src)
              /\ \A i \in 1..Len(src) :
                   /\ IsToolCallTurn(src[i]) => BlockCalls(dst[i]) = TurnCalls("openai", src[i])
                   /\ IsToolResultTurn(src[i]) =>
                         /\ dst[i].content[1].tool_use_id = src[i].tool_call_id
                         /\ dst[i].content[1].content = src[i].content

\* C18: the conversion for the content-block protocol drops every system
\* turn and keeps the other turns in order and number; a tool-result turn
\* becomes a user turn with one tool_result block whose tool_use_id is the
\* id of the source turn; an assistant turn with tool calls becomes a list
\* of blocks with one tool_use block per call, carrying its id, name and
\* arguments.
C18_ConversionShape ==
    (pc = "converted" /\ run.provider = "anthropic") =>
        /\ converted.status = "returned"
        /\ LET src == SelectSeq(run.messages, IsNotSystem)
               dst == converted.messages
           IN /\ Len(dst) = Len(src)
              /\ \A i \in 1..Len(dst) : dst[i].role # "system"
              /\ \A i \in 1..Len(src) :
                   IF IsToolResultTurn(src[i])
                   THEN /\ dst[i].role = "user"
                        /\ Len(dst[i].content) = 1
                        /\ dst[i].content[1].type = "tool_result"
                        /\ dst[i].content[1].tool_use_id = src[i].tool_call_id
                        /\ dst[i].content[1].content = src[i].content
                   ELSE IF IsToolCallTurn(src[i])
                   THEN /\ dst[i].role = "assistant"
                        /\ \A b \in 1..Len(dst[i].content) :
                              dst[i].content[b].type \in {"text", "tool_use"}
                        /\ BlockCalls(dst[i]) = TurnCalls("anthropic", src[i])
                   ELSE dst[i] = [role |-> src[i].role, content |-> src[i].content]

C18_Witness ==
    /\ pc = "converted"
    /\ run.provider = "anthropic"
    /\ Len(run.messages) = 3
    /\ run.messages[1].role = "system"
    /\ IsToolCallTurn(run.messages[2])
    /\ Len(run.messages[2].tool_calls) = 2
    /\ IsToolResultTurn(run.messages[3])
    /\ Len(converted.messages) = 2
    /\ converted.messages[2].content[1].type = "tool_result"

\* C19: the shaping step never raises: whenever the run-loop returned a
\* result, run() of the specialized agent returns a typed output.
C19_ShapingNeverRaises ==
    (output.status # "pending" /\ run.pc = "returned") =>
        /\ output.status = "returned"
        /\ output.value.type \in {"DataAgentOutput", "ResearchOutput", "AnalystOutput"}

\* C20: when the final text holds one well-formed JSON object, bare, in a
\* fenced json block or inside prose, the object the shaping step works
\* from has exactly the fields of that JSON object.
C20_ParsingRecoversTheObject ==
    (output.status # "pending" /\ run.pc = "returned" /\ run.response.tool_calls = <<>>
        /\ run.response.content.fmt \in JsonFormats) =>
        output.fields = run.response.content.obj

\* C21: every AnalystOutput carries a recommendation of the five-word
\* vocabulary: the Analyst's run() keeps a recommendation of the vocabulary
\* and forces a missing one, or one outside the vocabulary, to HOLD.
C21_RecommendationInVocabulary ==
    (output.status = "returned" /\ output.agent = "analyst") =>
        /\ output.value.type = "AnalystOutput"
        /\ output.value.recommendation \in Vocabulary
        /\ ("recommendation" \notin DOMAIN output.fields
               => output.value.recommendation = "HOLD")
        /\ ("recommendation" \in DOMAIN output.fields
               => output.value.recommendation =
                     IF output.fields["recommendation"] \in Vocabulary
                     THEN output.fields["recommendation"] ELSE "HOLD")

C21_Witness ==
    /\ output.status = "returned"
    /\ output.agent = "analyst"
    /\ "recommendation" \in DOMAIN output.fields
    /\ output.fields["recommendation"] \notin Vocabulary
    /\ output.value.recommendation = "HOLD"

\* The save_company calls made so far, and the get_company calls
SaveCalls == SelectSeq(db.calls, LAMBDA c : c.op = "save_company")

SavesBefore(k, symbol) ==
    {i \in 1..(k - 1) : db.calls[i].op = "save_company" /\ db.calls[i].symbol = symbol}

LatestOf(S) == CHOOSE i \in S : \A j \in S : j <= i

\* C23: after any sequence of save_company calls the table holds exactly
\* one row per saved symbol, every save of a symbol returned the same id,
\* and get_company(symbol) returned the fields of the most recent save of
\* that symbol, or None when the symbol was never saved.
C23_OneCompanyPerSymbol ==
    /\ \A symbol \in StoreSymbols :
          Cardinality({i \in 1..Len(db.companies) : db.companies[i].symbol = symbol})
             = IF SavesBefore(Len(db.calls) + 1, symbol) # {} THEN 1 ELSE 0
    /\ \A i, j \in 1..Len(SaveCalls) :
          SaveCalls[i].symbol = SaveCalls[j].symbol => SaveCalls[i].id = SaveCalls[j].id
    /\ \A i, j \in 1..Len(SaveCalls) :
          SaveCalls[i].symbol # SaveCalls[j].symbol => SaveCalls[i].id # SaveCalls[j].id
    /\ \A k \in 1..Len(db.calls) :
          db.calls[k].op = "get_company" =>
             db.calls[k].data =
                IF SavesBefore(k, db.calls[k].symbol) = {} THEN None
                ELSE db.calls[LatestOf(SavesBefore(k, db.calls[k].symbol))].data

C23_Witness ==
    /\ Len(db.calls) = 3
    /\ db.calls[1].op = "save_company" /\ db.calls[2].op = "save_company"
    /\ db.calls[1].symbol = db.calls[2].symbol
    /\ db.calls[1].data.name = "Test Company"
    /\ db.calls[2].data.name = "Updated Name"
    /\ db.calls[1].id = db.calls[2].id
    /\ db.calls[3].op = "get_company"
    /\ db.calls[3].data = db.calls[2].data

\* C22: an agent invocation of a delegation that returns writes exactly
\* one entry, keyed by its symbol, into the map of its own kind, and leaves
\* the other two maps, the symbols list and the entries of the other
\* symbols as they were; no other step changes a map.
C22_OneEntryInOwnMap ==
    [][/\ pc # "delegate" =>
             \A kind \in AgentKinds : MapOf(state', kind) = MapOf(state, kind)
       /\ (pc = "delegate" /\ (agentCalls' = agentCalls \/ state'.errors # state.errors)) =>
             \A kind \in AgentKinds : MapOf(state', kind) = MapOf(state, kind)
       /\ (pc = "delegate" /\ agentCalls' = agentCalls + 1 /\ state'.errors = state.errors) =>
             LET agent_type == next_action["agent"]
                 symbol == Head(batch)
                 before == MapOf(state, agent_type)
                 after == MapOf(state', agent_type)
             IN /\ DictKeys(after) = DictKeys(before) \cup {symbol}
                /\ Len(after) = Cardinality(DictKeys(after))
                /\ \A key \in DictKeys(before) \ {symbol} :
                      DictGet(after, key) = DictGet(before, key)
                /\ DictGet(after, symbol) \in
                      {outcome.output : outcome \in AgentOutcomes[agent_type]}
                /\ \A kind \in AgentKinds \ {agent_type} :
                      MapOf(state', kind) = MapOf(state, kind)
                /\ state'.symbols = state.symbols]_vars

C22_Witness ==
    /\ lastCall.agent = "research"
    /\ DictKeys(state.research) = {lastCall.symbol}
    /\ state.data # <<>>
    /\ state.analysis = <<>>
    /\ state.errors = <<>>

\* C24: a reply with no tool calls ends the run: run() returns from that
\* reply, with no further model call and no tool execution, and the value
\* returned is the JSON parsed from the reply's text (a fenced json block
\* first, otherwise a text that begins with "{") or, when there is no such
\* JSON, the wrapper {output: text}.
C24_ReplyWithoutToolCallsReturns ==
    [][/\ (run.pc = "await" /\ run'.chatCalls = run.chatCalls + 1 /\ run'.pc # "raised"
              /\ run'.response.tool_calls = <<>>) =>
             LET text == run'.response.content
             IN /\ run'.pc = "returned"
                /\ run'.messages = run.messages
                /\ run'.handlerCalls = run.handlerCalls
                /\ run'.pending = <<>>
                /\ run'.result = IF text.fmt \in {"fenced", "bare"} THEN text.obj
                                 ELSE [output |-> text]
       /\ run.pc = "returned" => run' = run]_vars

C24_Witness ==
    /\ run.pc = "returned"
    /\ run.chatCalls = 2
    /\ run.handlerCalls # <<>>
    /\ run.response.tool_calls = <<>>
    /\ run.response.content.fmt = "prose"
    /\ run.result = [output |-> run.response.content]

\* number of tool calls requested by the tool-call turns of a conversation
RECURSIVE ToolCallsRequested(_)
ToolCallsRequested(msgs) ==
    IF msgs = <<>> THEN 0
    ELSE (IF IsToolCallTurn(Head(msgs)) THEN Len(Head(msgs).tool_calls) ELSE 0)
         + ToolCallsRequested(Tail(msgs))

IsRegistered(name) == name \in tools

\* C26: when the last permitted reply (the N-th for ceiling N) requests
\* tool calls, each of them is executed and its result appended before the
\* exhausted-budget record is returned; whenever no call is waiting, the
\* number of tool executions equals the number of tool calls requested by
\* all replies received.
C26_LastRoundIsExecuted ==
    /\ run.pending = <<>> =>
          Len(SelectSeq(run.messages, IsToolResultTurn)) = ToolCallsRequested(run.messages)
    /\ (run.pc = "returned" /\ run.response.tool_calls # <<>>) =>
          LET calls == run.response.tool_calls
              k == Len(calls)
              n == Len(run.messages)
              handled == SelectSeq(CallNames(calls), IsRegistered)
              h == Len(run.handlerCalls)
          IN /\ run.chatCalls = run.max_iterations
             /\ run.result = ExhaustedRecord(run.response)
             /\ n > k
             /\ IsToolCallTurn(run.messages[n - k])
             /\ Len(run.messages[n - k].tool_calls) = k
             /\ \A j \in 1..k :
                   /\ IsToolResultTurn(run.messages[n - k + j])
                   /\ run.messages[n - k + j].tool_call_id = calls[j].id
             /\ h >= Len(handled)
             /\ SubSeq(run.handlerCalls, h - Len(handled) + 1, h) = handled

C26_Witness ==
    /\ run.pc = "returned"
    /\ run.max_iterations = 2
    /\ run.chatCalls = 2
    /\ Len(run.response.tool_calls) = 2
    /\ "error" \in DOMAIN run.result
    /\ Len(SelectSeq(run.messages, IsToolResultTurn)) >= 3

\* C27: a call_agent action whose agent is not data, analyst or research
\* consumes one planning iteration and nothing else: planning it counts one
\* iteration, and its delegation invokes no agent, changes none of the
\* three maps and appends nothing to the error log.
C27_UnknownAgentIsANoOp ==
    [][/\ (pc = "loop" /\ routingCalls' = routingCalls + 1
              /\ Get(next_action', "action", "none") = "call_agent"
              /\ Get(next_action', "agent", "unknown") \notin AgentKinds) =>
             /\ state' = [state EXCEPT !.iteration = @ + 1]
             /\ agentCalls' = agentCalls
             /\ lastCall' = lastCall
       /\ (pc = "delegate" /\ Get(next_action, "agent", "unknown") \notin AgentKinds) =>
             /\ state' = state
             /\ agentCalls' = agentCalls
             /\ lastCall' = lastCall
             /\ batch' = Tail(batch)]_vars

C27_Witness ==
    /\ pc = "loop"
    /\ Get(next_action, "action", "none") = "call_agent"
    /\ Get(next_action, "agent", "unknown") = "portfolio"
    /\ "symbols" \notin DOMAIN next_action
    /\ Len(state.symbols) = 2
    /\ batch = <<>>
    /\ state.iteration = 1
    /\ max_iterations = 2
    /\ agentCalls = 0
    /\ state.errors = <<>>
    /\ state.data = <<>> /\ state.research = <<>> /\ state.analysis = <<>>

\* C25: every analyze call with at least one extracted symbol makes exactly
\* one synthesis model call, whichever way the planning loop is left: no
\* call has made a second one, a call that has ended has made one, and the
\* synthesis call is the call's last step, after its last routing call and
\* its last delegation.
C25_ExactlyOneSynthesisCall ==
    /\ synthCalls <= 1
    /\ (pc \in {"done", "raised"} /\ state.symbols # <<>>) => synthCalls = 1
    /\ synthCalls = 1 => (pc = "done" /\ batch = <<>>)

\* C28: every key of the data, research and analysis maps, and of the maps
\* of the returned report, is one of the symbols extracted from the query.
C28_KeysAreExtractedSymbols ==
    /\ \A kind \in AgentKinds : DictKeys(MapOf(state, kind)) \subseteq Range(state.symbols)
    /\ pc = "done" =>
          DictKeys(report.data) \cup DictKeys(report.research) \cup DictKeys(report.analysis)
             \subseteq Range(report.symbols)

\* C29: every report returned by analyze has a recommendation of the
\* five-word vocabulary and a confidence between 0 and 1 (0 and 100 percent).
C29_ReportVerdictInRange ==
    pc = "done" =>
        /\ report.recommendation \in Vocabulary
        /\ 0 <= report.confidence.num
        /\ report.confidence.num <= 100 * report.confidence.den

\* the output a map holds under a key is this one, and no other key holds it
StoredOnlyUnder(map, symbol, value) ==
    \A i \in 1..Len(map) : (map[i].k = symbol) <=> (map[i].v = value)

\* C30: when the Research or the Analyst agent is invoked for a symbol, its
\* context holds a data entry exactly when the data map holds the symbol,
\* the Analyst's context holds a research entry exactly when the research
\* map holds the symbol, and an entry of the context is the output stored
\* under that symbol, never one stored under another symbol.
C30_ContextIsTheSymbolsOwn ==
    [][(pc = "delegate" /\ agentCalls' = agentCalls + 1) =>
          LET symbol == Head(batch)
              agent_type == lastCall'.agent
              context == lastCall'.context
          IN /\ lastCall'.symbol = symbol
             /\ agent_type = next_action["agent"]
             /\ agent_type \in {"research", "analyst"} =>
                   /\ "data" \in DOMAIN context <=> symbol \in DictKeys(state.data)
                   /\ "data" \in DOMAIN context =>
                         StoredOnlyUnder(state.data, symbol, context["data"])
             /\ agent_type = "analyst" =>
                   /\ "research" \in DOMAIN context <=> symbol \in DictKeys(state.research)
                   /\ "research" \in DOMAIN context =>
                         StoredOnlyUnder(state.research, symbol, context["research"])
             /\ agent_type = "research" => "research" \notin DOMAIN context
             /\ agent_type = "data" => context = EmptyObj]_vars

C30_Witness ==
    /\ lastCall.agent = "analyst"
    /\ lastCall.symbol = W_PPL
    /\ DictKeys(state.data) = {W_OGDC, W_PPL}
    /\ DictKeys(state.research) = {W_OGDC}
    /\ DOMAIN lastCall.context = {"data"}
    /\ lastCall.context["data"] = DictGet(state.data, W_PPL)
    /\ lastCall.context["data"] # DictGet(state.data, W_OGDC)

====
